---- MODULE Spec2Model ----
(***************************************************************************)
(* BehaviorRunner (src/unnamed/part_000): a pausable single-step runner of *)
(* a behavior's async action iterator.                                     *)
(*                                                                         *)
(* The model follows the JavaScript event loop: driver calls, interval     *)
(* ticks and the iterator's answers are macrotasks; promise reactions are  *)
(* microtasks, which run to exhaustion before the next macrotask.          *)
(***************************************************************************)
EXTENDS Naturals, Sequences, FiniteSets

\* ------------------------------------------------------------------ bounds
MaxCalls == 4      \* step(), swap and waitToBeUnpaused() calls of the driver
MaxWaits == 2      \* wait promises created over the controller's lifetime

\* ------------------------------------------------------- program constants
NoWait == 0        \* this._waitP = null
NoInterval == 0    \* this.upCheckInterval = null

\* ---------------------------------------------------------- collaborators
SourceIds == {"S1", "S2"}
PolicyIds == {"doneOrWait", "custom"}
PolicyArgs == PolicyIds \cup {"undefined"}

\* The elements the action iterators yield, in order.
SourceData ==
  [S1 |-> << [done |-> FALSE, value |-> "a"],
             [done |-> FALSE, value |-> "b"],
             [done |-> TRUE,  value |-> "undefined"] >>,
   S2 |-> << [done |-> FALSE, value |-> "wait"],
             [done |-> TRUE,  value |-> "undefined"] >>]

\* The i-th answer of iterator s; an exhausted iterator keeps answering done.
SourceElem(s, i) ==
  IF i \in 1..Len(SourceData[s])
    THEN SourceData[s][i]
    ELSE [done |-> TRUE, value |-> "undefined"]

Undefined == [kind |-> "undefined"]
Pending == [kind |-> "pending"]

\* The default postStepFN: {done, wait: !done && value is the wait sentinel}.
doneOrWait(r) ==
  [kind |-> "outcome", done |-> r.done, wait |-> (~r.done /\ r.value = "wait")]

\* A caller-supplied postStepFN: keeps done, never asks the driver to wait.
customPolicy(r) ==
  [kind |-> "outcome", done |-> r.done, wait |-> FALSE]

\* Mutant: performStep returns the iterator's answer without the policy.
ApplyPolicyNever(fn, r) == [kind |-> "raw", done |-> r.done, value |-> r.value]

\* performStep's result for the iterator answer r under postStepFN fn:
\* resultP.then(fn) when fn is set, resultP itself otherwise.
ApplyPolicy(fn, r) ==
  CASE fn = "doneOrWait" -> doneOrWait(r)
    [] fn = "custom" -> customPolicy(r)
    [] OTHER -> [kind |-> "raw", done |-> r.done, value |-> r.value]

VARIABLES
  paused,           \* window.$WBBehaviorPaused
  stepIterator,     \* this.stepIterator
  postStepFN,       \* this.postStepFN ("undefined" when unset)
  waitP,            \* this._waitP: NoWait or the id of the wait promise
  upCheckInterval,  \* this.upCheckInterval: NoInterval or the last handle
  intervals,        \* the live setInterval timers (timer i resolves wait i)
  nWaits,           \* wait promises created so far
  waitResolved,     \* the wait promises that are resolved
  reactions,        \* per wait promise: its reactions, in registration order
  calls,            \* the step() calls issued, in order
  pos,              \* per iterator: the number of next() calls made on it
  microtasks,       \* the microtask queue
  returned,         \* the last waitToBeUnpaused() call: the promise it
                    \* returned, and whether it created it
  nSwaps,           \* swap calls made so far
  nDirect,          \* waitToBeUnpaused() calls the driver made so far
  swappedWaits,     \* history: waits outstanding when the iterator was replaced
  observedUnpaused, \* history: waits whose tick read the flag falsy
  unpausedWaits     \* history: waits outstanding when unpause() was called

vars == << paused, stepIterator, postStepFN, waitP, upCheckInterval, intervals,
           nWaits, waitResolved, reactions, calls, pos, microtasks, returned,
           nSwaps, nDirect, swappedWaits, observedUnpaused, unpausedWaits >>

WaitIds == 1..MaxWaits
CallIds == 1..Len(calls)

\* constructor(behaviorStepIterator, postStepFN), window flag not yet set.
Init ==
  /\ paused = FALSE
  /\ stepIterator = "S1"
  /\ postStepFN \in PolicyIds
  /\ waitP = NoWait
  /\ upCheckInterval = NoInterval
  /\ intervals = {}
  /\ nWaits = 0
  /\ waitResolved = {}
  /\ reactions = [w \in WaitIds |-> << >>]
  /\ calls = << >>
  /\ pos = [s \in SourceIds |-> 0]
  /\ microtasks = << >>
  /\ returned = [promise |-> NoWait, fresh |-> FALSE]
  /\ nSwaps = 0
  /\ nDirect = 0
  /\ swappedWaits = {}
  /\ observedUnpaused = {}
  /\ unpausedWaits = {}

\* The driver has calls left to make (the bound of the model).
Budget == Len(calls) + nSwaps + nDirect < MaxCalls

\* No promise reaction is queued: the event loop may start a macrotask.
Idle == microtasks = << >>

\* ---------------------------------------------------------- the pause flag

\* pause(): window.$WBBehaviorPaused = true
pause ==
  /\ Idle
  /\ paused' = TRUE
  /\ UNCHANGED << stepIterator, postStepFN, waitP, upCheckInterval, intervals,
                  nWaits, waitResolved, reactions, calls, pos, microtasks,
                  returned, nSwaps, nDirect, swappedWaits, observedUnpaused,
                  unpausedWaits >>

\* Mutant: unpause() resolves the outstanding wait itself.
unpauseResolvesWait ==
  /\ Idle
  /\ paused' = FALSE
  /\ unpausedWaits' = IF waitP # NoWait THEN unpausedWaits \cup {waitP}
                                        ELSE unpausedWaits
  /\ waitP' = NoWait
  /\ intervals' = {}
  /\ UNCHANGED << stepIterator, postStepFN, upCheckInterval, nWaits,
                  waitResolved, reactions, calls, pos, microtasks, returned,
                  nSwaps, nDirect, swappedWaits, observedUnpaused >>

\* unpause(): window.$WBBehaviorPaused = false
unpause ==
  /\ Idle
  /\ paused' = FALSE
  /\ unpausedWaits' = IF waitP # NoWait THEN unpausedWaits \cup {waitP}
                                        ELSE unpausedWaits
  /\ UNCHANGED << stepIterator, postStepFN, waitP, upCheckInterval, intervals,
                  nWaits, waitResolved, reactions, calls, pos, microtasks,
                  returned, nSwaps, nDirect, swappedWaits, observedUnpaused >>

\* ------------------------------------------------------------------- swaps

\* Mutant: the policy is assigned whether or not one was supplied.
SwapPolicyAlways(newPostStepFN) == newPostStepFN

\* swapBehaviorIterator's policy update: if (newPostStepFN) this.postStepFN = it
SwapPolicy(newPostStepFN) ==
  IF newPostStepFN # "undefined" THEN newPostStepFN ELSE postStepFN

\* Mutant: replacing the iterator also drops the outstanding wait.
swapBehaviorIteratorResets(newBehaviorIterator, newPostStepFN) ==
  /\ Idle
  /\ Budget
  /\ nSwaps' = nSwaps + 1
  /\ stepIterator' = newBehaviorIterator
  /\ postStepFN' = SwapPolicy(newPostStepFN)
  /\ swappedWaits' =
       IF waitP # NoWait /\ newBehaviorIterator # stepIterator
         THEN swappedWaits \cup {waitP} ELSE swappedWaits
  /\ waitP' = NoWait
  /\ UNCHANGED << paused, upCheckInterval, intervals, nWaits,
                  waitResolved, reactions, calls, pos, microtasks, returned,
                  nDirect, observedUnpaused, unpausedWaits >>

\* swapBehaviorIterator(newBehaviorIterator, newPostStepFN)
swapBehaviorIterator(newBehaviorIterator, newPostStepFN) ==
  /\ Idle
  /\ Budget
  /\ nSwaps' = nSwaps + 1
  /\ stepIterator' = newBehaviorIterator
  /\ postStepFN' = SwapPolicy(newPostStepFN)
  /\ swappedWaits' =
       IF waitP # NoWait /\ newBehaviorIterator # stepIterator
         THEN swappedWaits \cup {waitP} ELSE swappedWaits
  /\ UNCHANGED << paused, waitP, upCheckInterval, intervals, nWaits,
                  waitResolved, reactions, calls, pos, microtasks, returned,
                  nDirect, observedUnpaused, unpausedWaits >>

\* swapPostStepFn(newPostStepFN): this.postStepFN = newPostStepFN
swapPostStepFn(newPostStepFN) ==
  /\ Idle
  /\ Budget
  /\ nSwaps' = nSwaps + 1
  /\ postStepFN' = newPostStepFN
  /\ UNCHANGED << paused, stepIterator, waitP, upCheckInterval, intervals,
                  nWaits, waitResolved, reactions, calls, pos, microtasks,
                  returned, nDirect, swappedWaits, observedUnpaused,
                  unpausedWaits >>

\* -------------------------------------------------------- waitToBeUnpaused

\* Mutant: the outstanding wait is not looked at.
WtbuNeverSeesWait == FALSE

\* if (this._waitP) return this._waitP;
WtbuSeesWait == waitP # NoWait

\* The promise waitToBeUnpaused() returns in the current state.
WtbuPromise == IF WtbuSeesWait THEN waitP ELSE nWaits + 1

\* The body of waitToBeUnpaused(): reuse the outstanding wait, or create the
\* promise and start the interval whose tick resolves it.
WtbuBody ==
  /\ returned' = [promise |-> WtbuPromise, fresh |-> ~WtbuSeesWait]
  /\ IF WtbuSeesWait
       THEN UNCHANGED << waitP, upCheckInterval, intervals, nWaits >>
       ELSE /\ nWaits < MaxWaits
            /\ nWaits' = nWaits + 1
            /\ waitP' = nWaits + 1
            /\ upCheckInterval' = nWaits + 1
            /\ intervals' = intervals \cup {nWaits + 1}

\* waitToBeUnpaused() called by the driver itself.
waitToBeUnpaused ==
  /\ Idle
  /\ Budget
  /\ nDirect' = nDirect + 1
  /\ WtbuBody
  /\ UNCHANGED << paused, stepIterator, postStepFN, waitResolved, reactions,
                  calls, pos, microtasks, nSwaps, swappedWaits,
                  observedUnpaused, unpausedWaits >>

\* Mutant: the interval callback resolves without reading the flag.
TickIgnoresFlag == TRUE

\* Mutant: the interval callback never finds the flag falsy.
TickNeverSeesUnpaused == FALSE

\* if (!window.$WBBehaviorPaused) in the interval callback
TickSeesUnpaused == ~paused

\* Mutant: the interval callback leaves this._waitP set.
TickKeepsWaitP == waitP

\* this._waitP = null in the interval callback
TickWaitP == NoWait

\* Mutant: the interval callback does not clear the interval.
TickClearsNothing == {}

\* clearInterval(this.upCheckInterval) in the interval callback
TickClears == {upCheckInterval}

\* One firing of the interval callback of timer i (created with wait i).
tick(i) ==
  /\ Idle
  /\ i \in intervals
  /\ observedUnpaused' = IF ~paused THEN observedUnpaused \cup {i}
                                    ELSE observedUnpaused
  /\ IF TickSeesUnpaused
       THEN /\ intervals' = intervals \ TickClears
            /\ waitP' = TickWaitP
            /\ waitResolved' = waitResolved \cup {i}
            /\ microtasks' = IF i \in waitResolved THEN microtasks
                                                   ELSE microtasks \o reactions[i]
       ELSE UNCHANGED << intervals, waitP, waitResolved, microtasks >>
  /\ UNCHANGED << paused, stepIterator, postStepFN, upCheckInterval, nWaits,
                  reactions, calls, pos, returned, nSwaps, nDirect, swappedWaits,
                  unpausedWaits >>

\* -------------------------------------------------------------------- step

NewCall(kind, w) ==
  [kind |-> kind, pc |-> "new", wait |-> w, pausedAtCall |-> paused,
   src |-> "none", idx |-> 0, fn |-> "none",
   result |-> Pending]

\* Mutant: step() does not look at the outstanding wait.
StepNeverSeesWait == FALSE

\* if (this._waitP) at the top of step()
StepSeesWait == waitP # NoWait

\* Mutant: step() does not read the pause flag.
StepNeverSeesPaused == FALSE

\* if (window.$WBBehaviorPaused) in step()
StepSeesPaused == paused

\* Mutant: performStep keeps advancing the iterator given to the constructor.
StepSourceStale(c) == "S1"

\* The iterator performStep() advances for call c: this.stepIterator, read
\* when performStep runs.
StepSource(c) == stepIterator

\* Mutant: performStep keeps using the policy the constructor installed by
\* default.
AdvancedStalePolicy(r, s) ==
  [r EXCEPT !.pc = "advancing", !.src = s, !.idx = pos[s] + 1,
            !.fn = "doneOrWait"]

\* performStep() for call record r: this.stepIterator.next() is called now,
\* and this.postStepFN is read now for resultP.then(this.postStepFN).
Advanced(r, s) ==
  [r EXCEPT !.pc = "advancing", !.src = s, !.idx = pos[s] + 1,
            !.fn = postStepFN]

\* Mutant: an advance that completes while paused is thrown away.
DeliveredUnlessPaused(r) ==
  IF paused THEN Undefined ELSE ApplyPolicy(r.fn, SourceElem(r.src, r.idx))

\* What the promise of performStep() resolves with for call record r: the
\* iterator's answer to r's next(), passed through the postStepFN read then.
DeliveredResult(r) == ApplyPolicy(r.fn, SourceElem(r.src, r.idx))

\* step(), up to its first suspension point.
step ==
  /\ Idle
  /\ Budget
  /\ LET c == Len(calls) + 1 IN
     IF StepSeesWait
       THEN \* return this._waitP: the call's promise adopts the wait promise
            /\ calls' = Append(calls, [NewCall("returnedWait", waitP)
                                         EXCEPT !.pc = "thenJob"])
            /\ microtasks' = Append(microtasks, [job |-> "then", call |-> c])
            /\ UNCHANGED << waitP, upCheckInterval, intervals, nWaits, returned,
                            reactions, pos >>
       ELSE IF StepSeesPaused
         THEN \* await this.waitToBeUnpaused()
              /\ WtbuBody
              /\ calls' = Append(calls, [NewCall("awaited", WtbuPromise)
                                           EXCEPT !.pc = "awaitWait"])
              /\ IF WtbuPromise \in waitResolved
                   THEN /\ microtasks' = Append(microtasks,
                                                [job |-> "resume", call |-> c])
                        /\ UNCHANGED reactions
                   ELSE /\ reactions' =
                             [reactions EXCEPT ![WtbuPromise] =
                                Append(@, [job |-> "resume", call |-> c])]
                        /\ UNCHANGED microtasks
              /\ UNCHANGED pos
         ELSE \* return this.performStep()
              /\ calls' = Append(calls,
                                 Advanced(NewCall("direct", NoWait), StepSource(c)))
              /\ pos' = [pos EXCEPT ![StepSource(c)] = @ + 1]
              /\ UNCHANGED << waitP, upCheckInterval, intervals, nWaits,
                              returned, reactions, microtasks >>
  /\ UNCHANGED << paused, stepIterator, postStepFN, waitResolved, nSwaps,
                  nDirect, swappedWaits, observedUnpaused, unpausedWaits >>

\* Mutant: the adapter's next() calls performStep() instead of step().
asyncIteratorNextUngated ==
  /\ Idle
  /\ Budget
  /\ calls' = Append(calls, Advanced(NewCall("direct", NoWait),
                                     StepSource(Len(calls) + 1)))
  /\ pos' = [pos EXCEPT ![StepSource(Len(calls) + 1)] = @ + 1]
  /\ UNCHANGED << paused, stepIterator, postStepFN, waitP, upCheckInterval,
                  intervals, nWaits, waitResolved, reactions, microtasks,
                  returned, nSwaps, nDirect, swappedWaits, observedUnpaused,
                  unpausedWaits >>

\* next() of the object [Symbol.asyncIterator]() returns: () => this.step()
asyncIteratorNext == step

\* return() {} of that object: an empty body.
asyncIteratorReturn ==
  /\ Idle
  /\ UNCHANGED vars

\* throw() {} of that object: an empty body.
asyncIteratorThrow ==
  /\ Idle
  /\ UNCHANGED vars

\* The iterator answers the next() made for call c.
sourceDeliver(c) ==
  /\ Idle
  /\ c \in CallIds
  /\ calls[c].pc = "advancing"
  /\ calls' = [calls EXCEPT ![c].pc = "policy"]
  /\ microtasks' = Append(microtasks, [job |-> "policy", call |-> c])
  /\ UNCHANGED << paused, stepIterator, postStepFN, waitP, upCheckInterval,
                  intervals, nWaits, waitResolved, reactions, pos, returned,
                  nSwaps, nDirect, swappedWaits, observedUnpaused, unpausedWaits >>

\* Mutant: a failure is reported as a different error.
FailedResultTranslated(error) == [kind |-> "rejected", reason |-> "translated"]

\* What step()'s promise rejects with when performStep's promise rejects
\* with error: step() has no try/catch, the rejection passes through.
FailedResult(error) == [kind |-> "rejected", reason |-> error]

\* The iterator rejects (or throws from) the next() made for call c.
sourceFail(c) ==
  /\ Idle
  /\ c \in CallIds
  /\ calls[c].pc = "advancing"
  /\ calls' = [calls EXCEPT ![c].pc = "policy"]
  /\ microtasks' = Append(microtasks, [job |-> "reject", call |-> c,
                                        error |-> "sourceError"])
  /\ UNCHANGED << paused, stepIterator, postStepFN, waitP, upCheckInterval,
                  intervals, nWaits, waitResolved, reactions, pos, returned,
                  nSwaps, nDirect, swappedWaits, observedUnpaused, unpausedWaits >>

\* The iterator answers the next() made for call c, and the caller-supplied
\* postStepFN throws on that answer.
policyFail(c) ==
  /\ Idle
  /\ c \in CallIds
  /\ calls[c].pc = "advancing"
  /\ calls[c].fn = "custom"
  /\ calls' = [calls EXCEPT ![c].pc = "policy"]
  /\ microtasks' = Append(microtasks, [job |-> "reject", call |-> c,
                                        error |-> "policyError"])
  /\ UNCHANGED << paused, stepIterator, postStepFN, waitP, upCheckInterval,
                  intervals, nWaits, waitResolved, reactions, pos, returned,
                  nSwaps, nDirect, swappedWaits, observedUnpaused, unpausedWaits >>

\* -------------------------------------------------------------- microtasks

\* The effect of the microtask m at the head of the queue.
RunJob(m) ==
  LET c == m.call
      rest == Tail(microtasks) IN
  CASE m.job = "then" ->
         \* the wait promise's then() is called for a step() that returned it
         /\ IF calls[c].wait \in waitResolved
              THEN /\ microtasks' = Append(rest, [job |-> "settle", call |-> c])
                   /\ UNCHANGED reactions
              ELSE /\ reactions' =
                        [reactions EXCEPT ![calls[c].wait] =
                           Append(@, [job |-> "settle", call |-> c])]
                   /\ microtasks' = rest
         /\ calls' = [calls EXCEPT ![c].pc = "onWait"]
         /\ UNCHANGED pos
    [] m.job = "settle" ->
         \* the wait promise resolved with no value: so does the call
         /\ calls' = [calls EXCEPT ![c].pc = "resolved", ![c].result = Undefined]
         /\ microtasks' = rest
         /\ UNCHANGED << reactions, pos >>
    [] m.job = "resume" ->
         \* the await in step() returns: return this.performStep()
         /\ calls' = [calls EXCEPT ![c] = Advanced(@, StepSource(c))]
         /\ pos' = [pos EXCEPT ![StepSource(c)] = @ + 1]
         /\ microtasks' = rest
         /\ UNCHANGED reactions
    [] m.job = "policy" ->
         \* resultP's reaction: the postStepFN read by performStep is applied
         /\ calls' = [calls EXCEPT
                        ![c].pc = "resolved",
                        ![c].result = DeliveredResult(calls[c])]
         /\ microtasks' = rest
         /\ UNCHANGED << reactions, pos >>
    [] m.job = "reject" ->
         \* resultP, or the promise of resultP.then(postStepFN), rejected
         /\ calls' = [calls EXCEPT
                        ![c].pc = "rejected",
                        ![c].result = FailedResult(m.error)]
         /\ microtasks' = rest
         /\ UNCHANGED << reactions, pos >>

runMicrotask ==
  /\ microtasks # << >>
  /\ RunJob(Head(microtasks))
  /\ UNCHANGED << paused, stepIterator, postStepFN, waitP, upCheckInterval,
                  intervals, nWaits, waitResolved, returned, nSwaps, nDirect,
                  swappedWaits, observedUnpaused, unpausedWaits >>

\* ----------------------------------------------------------- specification

Next ==
  \/ pause
  \/ unpause
  \/ \E s \in SourceIds, f \in PolicyArgs : swapBehaviorIterator(s, f)
  \/ \E f \in PolicyArgs : swapPostStepFn(f)
  \/ waitToBeUnpaused
  \/ \E i \in WaitIds : tick(i)
  \/ step
  \/ \E c \in 1..MaxCalls : sourceDeliver(c)
  \/ runMicrotask

Spec == Init /\ [][Next]_vars

\* The event loop runs queued reactions, a live interval keeps firing, and
\* the iterator answers every next() it was sent.
Fairness ==
  /\ WF_vars(runMicrotask)
  /\ \A i \in WaitIds : WF_vars(tick(i))
  /\ \A c \in 1..MaxCalls : WF_vars(sourceDeliver(c))

\* The runner with its iterator and policy left in place (no swap calls).
NextNoSwap ==
  \/ pause
  \/ unpause
  \/ waitToBeUnpaused
  \/ \E i \in WaitIds : tick(i)
  \/ step
  \/ \E c \in 1..MaxCalls : sourceDeliver(c)
  \/ runMicrotask

FairSpec == Init /\ [][NextNoSwap]_vars /\ Fairness

\* The runner with an iterator and a policy that may fail.
NextFail ==
  \/ pause
  \/ unpause
  \/ waitToBeUnpaused
  \/ \E i \in WaitIds : tick(i)
  \/ step
  \/ \E c \in 1..MaxCalls : sourceDeliver(c)
  \/ \E c \in 1..MaxCalls : sourceFail(c)
  \/ \E c \in 1..MaxCalls : policyFail(c)
  \/ runMicrotask

FailSpec == Init /\ [][NextFail]_vars

\* The runner driven through its async-iterable adapter (for await ... of)
\* instead of by step() calls.
NextIter ==
  \/ pause
  \/ unpause
  \/ waitToBeUnpaused
  \/ \E i \in WaitIds : tick(i)
  \/ asyncIteratorNext
  \/ asyncIteratorReturn
  \/ asyncIteratorThrow
  \/ \E c \in 1..MaxCalls : sourceDeliver(c)
  \/ runMicrotask

IterSpec == Init /\ [][NextIter]_vars

\* ------------------------------------------------------------------ claims

PendingWaits == (1..nWaits) \ waitResolved
AdvancedCalls == {c \in CallIds : calls[c].idx > 0}
CallsOn(w) == {c \in CallIds : calls[c].wait = w}

\* C1: a controller has at most one pending wait promise and at most one
\* live polling timer in every reachable state, and while a wait is
\* outstanding the last waitToBeUnpaused() call returned exactly that wait.
C1_AtMostOneWait ==
  /\ Cardinality(PendingWaits) <= 1
  /\ Cardinality(intervals) <= 1
  /\ waitP # NoWait => PendingWaits = {waitP} /\ returned.promise = waitP
  /\ waitP = NoWait => PendingWaits = {}

\* A waitToBeUnpaused() call found a wait outstanding and returned it.
C1_Witness ==
  /\ waitP # NoWait
  /\ returned.promise = waitP
  /\ ~returned.fresh

\* C2: a step() call issued while the flag was true has advanced the source
\* only if a tick of its wait's timer has read the flag falsy.
C2_NoAdvanceWhilePaused ==
  \A c \in CallIds :
    calls[c].pausedAtCall /\ calls[c].idx > 0
      => calls[c].wait \in observedUnpaused

\* A step() issued while paused has advanced the source, and the flag is
\* true again.
C2_Witness ==
  \E c \in CallIds :
    /\ calls[c].pausedAtCall
    /\ calls[c].idx > 0
    /\ paused

\* C3: a step() call that found a wait outstanding never advances the
\* source; of the step() calls overlapping on one wait at most one advances,
\* exactly one once the wait a step() created has resolved and its reactions
\* have run; and every next() made on a source belongs to one call.
C3_OneAdvancePerWait ==
  /\ \A c \in CallIds : calls[c].kind = "returnedWait" => calls[c].idx = 0
  /\ \A w \in 1..nWaits :
       /\ Cardinality(CallsOn(w) \cap AdvancedCalls) <= 1
       /\ (/\ w \in waitResolved
           /\ Idle
           /\ \E c \in CallsOn(w) : calls[c].kind = "awaited")
            => Cardinality(CallsOn(w) \cap AdvancedCalls) = 1
  /\ pos["S1"] + pos["S2"] = Cardinality(AdvancedCalls)

\* Three step() calls overlapped on one wait, which has resolved: all three
\* have settled and one element is consumed.
C3_Witness ==
  \E w \in waitResolved :
    /\ Cardinality(CallsOn(w)) >= 3
    /\ \A c \in CallsOn(w) : calls[c].pc \in {"resolved", "advancing"}
    /\ pos["S1"] + pos["S2"] = 1

\* C4 (as claimed): a step() that returned the outstanding wait resolves with
\* the result of the step() that created that wait.
C4_SameResult ==
  \A c, d \in CallIds :
    (/\ calls[c].kind = "returnedWait"
     /\ calls[d].kind = "awaited"
     /\ calls[c].pausedAtCall
     /\ calls[c].wait = calls[d].wait
     /\ calls[c].pc = "resolved"
     /\ calls[d].pc = "resolved")
      => calls[c].result = calls[d].result

\* The first step() call found the flag set and no wait outstanding.
FirstStepPaused ==
  Len(calls) >= 1 /\ calls[1].pausedAtCall /\ calls[1].kind # "returnedWait"

\* C5, in every state: when the first step() is issued while paused (and
\* suspends on the wait), it advances the source only after unpause() was
\* called during its wait, and it resolves with the policy outcome of the
\* first element of the source, having made the first next() call of all.
C5_ResolvedOnlyAfterUnpause ==
  FirstStepPaused
    => /\ calls[1].pc \in {"advancing", "policy", "resolved"}
            => calls[1].wait \in unpausedWaits
       /\ calls[1].pc = "resolved"
            => /\ calls[1].idx = 1
               /\ calls[1].result =
                    ApplyPolicy(calls[1].fn, SourceElem(calls[1].src, 1))
               /\ \A d \in AdvancedCalls \ {1} :
                    calls[d].src = calls[1].src => calls[d].idx > 1

\* C5: if pause() is called before the first step(), that step() does not
\* advance or resolve before unpause() is called; when it resolves, it
\* resolves with the policy outcome of the first element of the source; and
\* once the flag is clear it does resolve, unless the flag is set again.
C5_FirstStepAfterUnpause ==
  /\ []C5_ResolvedOnlyAfterUnpause
  /\ (FirstStepPaused /\ ~paused)
       ~> (paused \/ (FirstStepPaused /\ calls[1].pc = "resolved"))

\* The first step() was issued while paused and has resolved with an outcome.
C5_Witness ==
  /\ Len(calls) >= 1
  /\ calls[1].pausedAtCall
  /\ calls[1].kind = "awaited"
  /\ calls[1].pc = "resolved"
  /\ calls[1].result.kind = "outcome"

InFlight(c) == calls[c].pc \in {"advancing", "policy"}

\* C6: the pause flag is not read once a step() has started advancing the
\* source: whatever happens next (pause() included), an in-flight advance
\* keeps its iterator request and its policy, is never sent back to waiting,
\* and when it completes the call resolves with the policy outcome of the
\* element it advanced; while it awaits the iterator, the iterator's answer
\* is accepted whether or not the flag is set; and pause() itself changes no
\* call. A step() issued while the flag is set does not advance at call time.
C6_PauseOnlyAtBoundaries ==
  /\ [](\A c \in CallIds :
          calls[c].pc = "advancing" /\ Idle => ENABLED sourceDeliver(c))
  /\ [][\A c \in CallIds :
          InFlight(c) =>
            /\ calls'[c].pc \in {"advancing", "policy", "resolved"}
            /\ calls'[c].src = calls[c].src
            /\ calls'[c].idx = calls[c].idx
            /\ calls'[c].fn = calls[c].fn
            /\ calls'[c].pc = "resolved" =>
                 calls'[c].result =
                   ApplyPolicy(calls[c].fn,
                               SourceElem(calls[c].src, calls[c].idx))]_vars
  /\ [][pause => calls' = calls /\ pos' = pos /\ microtasks' = microtasks]_vars
  /\ [][paused /\ step => pos' = pos]_vars

\* pause() was issued while step() c was advancing the source (the flag was
\* clear at c's call and has been set since before the later step() d, which
\* is held back): the iterator has just answered c with the flag set, and the
\* reaction that resolves c is queued.
C6_Witness ==
  \E c, d \in CallIds :
    /\ c < d
    /\ ~calls[c].pausedAtCall
    /\ calls[c].pc = "policy"
    /\ calls[d].pc = "awaitWait"
    /\ calls[d].wait \notin unpausedWaits
    /\ paused

\* C7: every next() is made on the iterator that is current when the advance
\* is made: an action that advances a source advances this.stepIterator, so
\* after swapBehaviorIterator(S2) the previous iterator is never advanced
\* again, also not by a step() that was suspended on a wait during the swap.
C7_AdvanceCurrentSource ==
  [][\A s \in SourceIds : pos'[s] # pos[s] => s = stepIterator]_vars

\* A step() suspended on a wait while the iterator was replaced has advanced
\* the replacement, and the replaced iterator was never advanced.
C7_Witness ==
  \E c \in CallIds :
    /\ calls[c].kind = "awaited"
    /\ calls[c].wait \in swappedWaits
    /\ calls[c].src = "S2"
    /\ calls[c].idx = 1
    /\ pos["S1"] = 0

\* C8 (as claimed): a swap called with no policy leaves postStepFN as it was.
C8_NoPolicyIsNoOp ==
  [][(swapPostStepFn("undefined")
        \/ \E s \in SourceIds : swapBehaviorIterator(s, "undefined"))
       => postStepFN' = postStepFN]_vars

\* C8 (amended): swapBehaviorIterator called with no policy leaves postStepFN
\* as it was; swapPostStepFn called with no policy unsets postStepFN, and a
\* step() that advances while it is unset resolves with the iterator's raw
\* answer.
C8_NoPolicyBySwap ==
  /\ [][(\E s \in SourceIds : swapBehaviorIterator(s, "undefined"))
          => postStepFN' = postStepFN]_vars
  /\ [][swapPostStepFn("undefined") => postStepFN' = "undefined"]_vars
  /\ [](\A c \in CallIds :
          calls[c].pc = "resolved" /\ calls[c].idx > 0 =>
            IF calls[c].fn = "undefined"
              THEN calls[c].result =
                     [kind |-> "raw",
                      done |-> SourceElem(calls[c].src, calls[c].idx).done,
                      value |-> SourceElem(calls[c].src, calls[c].idx).value]
              ELSE calls[c].result.kind = "outcome")

\* postStepFN was unset by swapPostStepFn, the iterator was then replaced with
\* no policy given, and a step() on the replacement resolved with the raw
\* answer.
C8_Witness ==
  /\ postStepFN = "undefined"
  /\ stepIterator = "S2"
  /\ \E c \in CallIds :
       /\ calls[c].pc = "resolved"
       /\ calls[c].src = "S2"
       /\ calls[c].result.kind = "raw"

\* C9 (as claimed): a wait is outstanding only while the flag is set.
C9_WaitOnlyWhilePaused ==
  waitP # NoWait => paused

\* C9 (amended): this._waitP is cleared exactly by a tick of the polling
\* timer that reads the flag falsy: any step that clears it is such a tick,
\* such a tick always clears it, and unpause() leaves it set.
C9_ClearedByTick ==
  /\ [][(waitP # NoWait /\ waitP' = NoWait)
          => ~paused /\ tick(waitP)]_vars
  /\ [][\A i \in WaitIds : (tick(i) /\ ~paused) => waitP' = NoWait]_vars
  /\ [][unpause => waitP' = waitP]_vars

\* unpause() was called while the wait was outstanding; no tick has fired
\* yet, so the flag is false and the wait is still there.
C9_Witness ==
  /\ waitP # NoWait
  /\ ~paused
  /\ waitP \in unpausedWaits

\* C10 (as claimed): a wait that was outstanding when unpause() was called
\* eventually resolves.
C10_UnpauseResolves ==
  \A w \in WaitIds : (w \in unpausedWaits) ~> (w \in waitResolved)

\* C10 (amended): an outstanding wait with the flag clear leads to the wait
\* being resolved, unless the flag is set again first; and once a wait is
\* resolved every step() call held on it settles.
C10_ResolvesUnlessRepaused ==
  /\ \A w \in WaitIds :
       (waitP = w /\ ~paused) ~> (paused \/ w \in waitResolved)
  /\ \A c \in 1..MaxCalls :
       (c \in CallIds /\ calls[c].wait \in waitResolved)
         ~> (c \in CallIds /\ calls[c].pc = "resolved")

\* unpause() was called while a wait was outstanding; the wait has resolved
\* and the step() that was suspended on it has settled with an outcome.
C10_Witness ==
  \E w \in unpausedWaits \cap waitResolved :
    \E c \in CallsOn(w) :
      /\ calls[c].kind = "awaited"
      /\ calls[c].pc = "resolved"

JustRejected(c) == calls'[c].pc = "rejected" /\ calls[c].pc # "rejected"

\* C11: a step() whose iterator or postStepFN fails rejects with exactly the
\* error that was raised; the failure and the rejection change neither the
\* pause flag, the wait promise, the polling timer, the iterator, the policy
\* nor the number of next() calls made (no retry), so the next step() starts
\* from the controller state the failed one left; only calls that advanced
\* the source can fail, and each advanced it once.
C11_FailurePropagates ==
  /\ [][\A c \in CallIds :
          JustRejected(c) =>
            /\ microtasks # << >>
            /\ Head(microtasks).call = c
            /\ calls'[c].result =
                 [kind |-> "rejected", reason |-> Head(microtasks).error]
            /\ calls'[c].idx = calls[c].idx]_vars
  /\ [][((\E c \in CallIds : JustRejected(c))
           \/ (\E c \in 1..MaxCalls : sourceFail(c) \/ policyFail(c)))
          => UNCHANGED << paused, waitP, upCheckInterval, intervals,
                          waitResolved, reactions, stepIterator, postStepFN,
                          pos >>]_vars
  /\ [](\A c \in CallIds :
          calls[c].pc = "rejected" =>
            /\ calls[c].idx > 0
            /\ calls[c].result.reason \in {"sourceError", "policyError"})
  /\ [](pos["S1"] + pos["S2"] = Cardinality(AdvancedCalls))

\* A step() was rejected with the iterator's error and another with the
\* policy's; the step() after them resolved with the outcome of the next
\* element, with the flag set and a later step() held on a wait.
C11_Witness ==
  /\ Len(calls) = 4
  /\ calls[1].pc = "rejected" /\ calls[1].result.reason = "sourceError"
  /\ calls[2].pc = "rejected" /\ calls[2].result.reason = "policyError"
  /\ calls[3].pc = "resolved" /\ calls[3].result.kind = "outcome"
  /\ calls[3].idx = 3
  /\ calls[4].pc = "awaitWait"

\* The controller's own state, the pause flag aside.
Controller ==
  << stepIterator, postStepFN, waitP, upCheckInterval, intervals, nWaits,
     waitResolved, reactions, calls, pos, microtasks >>

\* C12: pause() sets the flag and unpause() clears it, and neither changes
\* anything else of the controller (wait promise, timer, reactions, calls,
\* iterator, policy); unpause() with the flag already clear changes nothing.
C12_PauseUnpauseFrame ==
  /\ [][pause => paused' /\ UNCHANGED Controller]_vars
  /\ [][unpause => ~paused' /\ UNCHANGED Controller]_vars
  /\ [][(unpause /\ ~paused) => UNCHANGED << paused, Controller >>]_vars

\* unpause() and then pause() were called while a step() was held on the
\* wait: the wait, its timer and the held step() are still there.
C12_Witness ==
  /\ waitP # NoWait
  /\ waitP \in unpausedWaits
  /\ paused
  /\ intervals = {waitP}
  /\ waitP \notin waitResolved
  /\ \E c \in CallsOn(waitP) : calls[c].pc = "awaitWait"

\* What a swap must leave alone: the flag, the wait promise and its timer.
WaitState ==
  << paused, waitP, upCheckInterval, intervals, nWaits, waitResolved,
     reactions >>

\* C13: swapBehaviorIterator and swapPostStepFn, with any arguments and in
\* any state, leave the flag, the wait promise, its reactions and the timer
\* unchanged; a wait promise is resolved only by a tick of its own timer
\* that reads the flag falsy.
C13_SwapFrame ==
  /\ [][(\E s \in SourceIds, f \in PolicyArgs : swapBehaviorIterator(s, f))
          => UNCHANGED WaitState]_vars
  /\ [][(\E f \in PolicyArgs : swapPostStepFn(f)) => UNCHANGED WaitState]_vars
  /\ [][\A w \in WaitIds :
          (w \in waitResolved' /\ w \notin waitResolved)
            => tick(w) /\ ~paused]_vars
  /\ [](waitResolved \subseteq observedUnpaused)

\* The iterator was replaced while a step() was held on the wait, which then
\* resolved on a tick that read the flag falsy.
C13_Witness ==
  \E w \in swappedWaits \cap waitResolved :
    /\ w \in observedUnpaused
    /\ \E c \in CallsOn(w) : calls[c].kind = "awaited" /\ calls[c].idx > 0

\* The outcomes of the scenario's elements under the default policy: "a",
\* "b", then the exhausted iterator.
Expected14(i) ==
  IF i <= 2 THEN [kind |-> "outcome", done |-> FALSE, wait |-> FALSE]
            ELSE [kind |-> "outcome", done |-> TRUE, wait |-> FALSE]

\* C14: as long as no step() was held by a pause and nothing was swapped,
\* the k-th step() makes the k-th next() on the iterator, and under the
\* default policy it resolves with the outcome of the k-th element: for
\* "a", "b", done these are {done: false, wait: false} twice, then
\* {done: true, wait: false}. In general a step() under the default policy
\* resolves with {done, wait: !done && value is the wait sentinel} of the
\* element it advanced.
C14_DefaultPolicyInOrder ==
  /\ (nSwaps = 0 /\ \A c \in CallIds : calls[c].kind = "direct")
       => \A c \in CallIds :
            /\ calls[c].src = "S1"
            /\ calls[c].idx = c
            /\ (calls[c].pc = "resolved" /\ calls[c].fn = "doneOrWait")
                 => calls[c].result = Expected14(c)
  /\ \A c \in CallIds :
       (calls[c].pc = "resolved" /\ calls[c].idx > 0
          /\ calls[c].fn = "doneOrWait")
         => LET e == SourceElem(calls[c].src, calls[c].idx) IN
            calls[c].result =
              [kind |-> "outcome", done |-> e.done,
               wait |-> (~e.done /\ e.value = "wait")]

\* Three unpaused step() calls under the default policy have resolved: with
\* the outcomes of "a" and "b", then {done: true, wait: false}.
C14_Witness ==
  /\ Len(calls) = 3
  /\ nSwaps = 0
  /\ \A c \in CallIds :
       /\ calls[c].kind = "direct"
       /\ calls[c].fn = "doneOrWait"
       /\ calls[c].pc = "resolved"
  /\ calls[1].result = [kind |-> "outcome", done |-> FALSE, wait |-> FALSE]
  /\ calls[2].result = [kind |-> "outcome", done |-> FALSE, wait |-> FALSE]
  /\ calls[3].result = [kind |-> "outcome", done |-> TRUE, wait |-> FALSE]

\* Call c starts its source advance in this step.
StartsAdvance(c) ==
  /\ c <= Len(calls')
  /\ calls'[c].idx > 0
  /\ IF c <= Len(calls) THEN calls[c].idx = 0 ELSE TRUE

\* C15: a swap given a policy installs it; a step() that starts its source
\* advance uses the policy installed at that moment (also when the step()
\* was issued, and held on a wait, before the replacement), and it resolves
\* with that policy's result for the element it advanced.
C15_NewPolicyFromNextAdvance ==
  /\ [][\A f \in PolicyIds :
          (swapPostStepFn(f) \/ \E s \in SourceIds : swapBehaviorIterator(s, f))
            => postStepFN' = f]_vars
  /\ [][\A c \in 1..MaxCalls :
          StartsAdvance(c) => calls'[c].fn = postStepFN]_vars
  /\ [][\A c \in CallIds :
          (calls[c].pc = "policy" /\ calls'[c].pc = "resolved")
            => calls'[c].result =
                 ApplyPolicy(calls[c].fn,
                             SourceElem(calls[c].src, calls[c].idx))]_vars

\* The first step() advanced under the default policy; the second was held on
\* a wait during which the only swap installed iterator S2 and the custom
\* policy; it resolved with the custom policy's outcome of S2's first
\* element (the default policy would have answered wait: true).
C15_Witness ==
  /\ Len(calls) >= 2
  /\ nSwaps = 1
  /\ calls[1].kind = "direct" /\ calls[1].fn = "doneOrWait"
  /\ calls[2].kind = "awaited"
  /\ calls[2].wait \in swappedWaits
  /\ calls[2].src = "S2" /\ calls[2].idx = 1
  /\ calls[2].fn = "custom"
  /\ calls[2].pc = "resolved"
  /\ calls[2].result = [kind |-> "outcome", done |-> FALSE, wait |-> FALSE]

\* C16: of two step() calls, the one issued later never advances the source
\* while the earlier one is still to advance it, so on each iterator the
\* elements go to the advancing calls in the order the calls were issued;
\* and a call that resolves with a result resolves with the result for the
\* element its own next() asked for.
C16_StepsInOrder ==
  /\ \A c, d \in CallIds :
       c < d =>
         /\ calls[d].idx > 0
              => (calls[c].idx > 0 \/ calls[c].kind = "returnedWait")
         /\ (calls[c].idx > 0 /\ calls[d].idx > 0
               /\ calls[c].src = calls[d].src)
              => calls[c].idx < calls[d].idx
  /\ \A c \in CallIds :
       (calls[c].pc = "resolved" /\ calls[c].result.kind # "undefined")
         => /\ calls[c].idx > 0
            /\ calls[c].result =
                 ApplyPolicy(calls[c].fn,
                             SourceElem(calls[c].src, calls[c].idx))

\* A step() held by a pause advanced the first element after the wait
\* resolved; the step() issued after it advanced the second; both resolved.
C16_Witness ==
  \E c, d \in CallIds :
    /\ c < d
    /\ calls[c].kind = "awaited" /\ calls[d].kind = "direct"
    /\ calls[c].src = calls[d].src
    /\ calls[c].idx = 1 /\ calls[d].idx = 2
    /\ calls[c].pc = "resolved" /\ calls[d].pc = "resolved"

\* C17: driven through the adapter, the runner only takes steps the runner
\* driven by step() takes: each next() is exactly one step() (one new call,
\* which advances the source at once iff the runner is neither paused nor
\* waiting, and otherwise is tied to the wait), and return() and throw()
\* change nothing.
C17_AdapterIsStep ==
  /\ [][NextNoSwap]_vars
  /\ [][asyncIteratorNext =>
          /\ step
          /\ Len(calls') = Len(calls) + 1
          /\ (pos' # pos) <=> (~paused /\ waitP = NoWait)
          /\ (waitP' # waitP) <=> (paused /\ waitP = NoWait)]_vars
  /\ [][(asyncIteratorReturn \/ asyncIteratorThrow) => UNCHANGED vars]_vars
  /\ [](\A c \in CallIds :
          (calls[c].pc = "resolved" /\ calls[c].idx > 0)
            => calls[c].result = DeliveredResult(calls[c]))

\* next() was called three times: while paused (held, then advanced the first
\* element), while that wait was outstanding (given the wait promise), and
\* with nothing outstanding (advanced the second element).
C17_Witness ==
  /\ Len(calls) = 3
  /\ calls[1].kind = "awaited" /\ calls[1].idx = 1
  /\ calls[2].kind = "returnedWait" /\ calls[2].wait = calls[1].wait
  /\ calls[3].kind = "direct" /\ calls[3].idx = 2
  /\ \A c \in CallIds : calls[c].pc = "resolved"

\* C18: a tick that reads the flag falsy stops its interval, clears
\* this._waitP and resolves the wait (releasing what was held on it) in one
\* step, and only a wait not yet resolved has a live interval, so this is the
\* wait's first such tick. A step() that finds the flag set and no wait
\* outstanding creates a wait that was never used before, unresolved, with
\* its own interval, and a held step() advances only once its own wait has
\* resolved.
C18_TickThenFreshWait ==
  /\ [][\A i \in WaitIds :
          (tick(i) /\ ~paused)
            => /\ i \notin waitResolved
               /\ i \in waitResolved'
               /\ intervals' = {}
               /\ waitP' = NoWait
               /\ microtasks' = reactions[i]]_vars
  /\ [][(step /\ paused /\ waitP = NoWait)
          => /\ waitP' \notin 1..nWaits
             /\ waitP' \in WaitIds'
             /\ waitP' \notin waitResolved'
             /\ intervals' = {waitP'}
             /\ calls'[Len(calls')].wait = waitP'
             /\ calls'[Len(calls')].pc = "awaitWait"]_vars
  /\ [](\A c \in CallIds :
          (calls[c].kind = "awaited" /\ calls[c].wait \notin waitResolved)
            => calls[c].pc = "awaitWait" /\ calls[c].idx = 0)

\* The first wait has resolved and the step() held on it has advanced; after
\* a new pause() a second step() is held on a second wait, which is
\* outstanding with its own interval while the first stays resolved.
C18_Witness ==
  /\ nWaits = 2
  /\ 1 \in waitResolved
  /\ waitP = 2
  /\ intervals = {2}
  /\ paused
  /\ \E c, d \in CallIds :
       /\ calls[c].kind = "awaited" /\ calls[c].wait = 1 /\ calls[c].idx > 0
       /\ calls[d].kind = "awaited" /\ calls[d].wait = 2
       /\ calls[d].pc = "awaitWait"

\* C19: the set of live intervals is empty when this._waitP is null and
\* otherwise holds exactly the interval created with the outstanding wait,
\* which is the one this.upCheckInterval names.
C19_TimerIffWait ==
  /\ intervals = IF waitP = NoWait THEN {} ELSE {waitP}
  /\ waitP # NoWait => upCheckInterval = waitP
  /\ Cardinality(intervals) <= 1

\* Both waits have been created and resolved: no interval is left, and
\* this.upCheckInterval still names the second, cleared one.
C19_Witness ==
  /\ nWaits = 2
  /\ waitResolved = {1, 2}
  /\ waitP = NoWait
  /\ intervals = {}
  /\ upCheckInterval = 2

TypeOK ==
  /\ paused \in BOOLEAN
  /\ stepIterator \in SourceIds
  /\ postStepFN \in PolicyArgs
  /\ waitP \in {NoWait} \cup WaitIds
  /\ intervals \subseteq WaitIds
  /\ nWaits \in 0..MaxWaits
  /\ Len(calls) <= MaxCalls

====
